---- MODULE Spec2Model ----
(***************************************************************************)
(* Model of the Noise Music System media player entity                     *)
(* (custom_components/noise_music_system/media_player.py).                 *)
(*                                                                         *)
(* Python strings are sequences of one-character strings, so that          *)
(* split, slugify, len, int() and strptime are computed on characters.     *)
(* Python values are tagged records: [t |-> "none"], [t |-> "str", v],     *)
(* [t |-> "int", v], [t |-> "float", n, d] (the rational n/d), [t |->      *)
(* "bool", v], [t |-> "datetime", ...].  JSON values carry the tags        *)
(* "null", "bool", "int", "float", "str", "array" and "object".            *)
(***************************************************************************)
EXTENDS Integers, Sequences, FiniteSets, TLC

VARIABLES self, call, raised, scheduled, published

vars == <<self, call, raised, scheduled, published>>

\* self       the entity's attributes
\* call       the entry point the host called last, with its arguments
\* raised     the exception that escaped that call ("none" when it returned)
\* scheduled  the number of schedule_update_ha_state calls it made
\* published  the messages it handed to mqtt.async_publish, in order

-----------------------------------------------------------------------------
(* Characters and string helpers (Python str methods).                     *)

LowerLetters == <<"a", "b", "c", "d", "e", "f", "g", "h", "i", "j", "k", "l", "m", "n", "o", "p", "q", "r", "s", "t", "u", "v", "w", "x", "y", "z">>

UpperLetters == <<"A", "B", "C", "D", "E", "F", "G", "H", "I", "J", "K", "L", "M", "N", "O", "P", "Q", "R", "S", "T", "U", "V", "W", "X", "Y", "Z">>

Digits == <<"0", "1", "2", "3", "4", "5", "6", "7", "8", "9">>

Range(seq) == {seq[i] : i \in DOMAIN seq}

IndexOf(seq, c) == CHOOSE i \in DOMAIN seq : seq[i] = c

LowerSet == Range(LowerLetters)

UpperSet == Range(UpperLetters)

DigitSet == Range(Digits)

IsLower(c) == c \in LowerSet

IsUpper(c) == c \in UpperSet

IsDigit(c) == c \in DigitSet

\* str.lower() on one character
LowerChar(c) == IF IsUpper(c) THEN LowerLetters[IndexOf(UpperLetters, c)] ELSE c

\* str.upper() on one character
UpperChar(c) == IF IsLower(c) THEN UpperLetters[IndexOf(LowerLetters, c)] ELSE c

StrLower(s) == [i \in DOMAIN s |-> LowerChar(s[i])]

StrUpper(s) == [i \in DOMAIN s |-> UpperChar(s[i])]

\* str.lstrip(c) / str.rstrip(c) / str.strip(c) for a single character c
RECURSIVE LStrip(_, _)
LStrip(s, c) == IF s # <<>> /\ Head(s) = c THEN LStrip(Tail(s), c) ELSE s

RECURSIVE RStrip(_, _)
RStrip(s, c) == IF s # <<>> /\ s[Len(s)] = c THEN RStrip(SubSeq(s, 1, Len(s) - 1), c) ELSE s

Strip(s, c) == RStrip(LStrip(s, c), c)

\* str.split(sep): the segments between the occurrences of sep; always at
\* least one segment (the empty string splits to <<"">>).
RECURSIVE SplitFrom(_, _, _)
SplitFrom(s, sep, cur) ==
    IF s = <<>> THEN <<cur>>
    ELSE IF Head(s) = sep THEN <<cur>> \o SplitFrom(Tail(s), sep, <<>>)
    ELSE SplitFrom(Tail(s), sep, Append(cur, Head(s)))

Split(s, sep) == SplitFrom(s, sep, <<>>)

\* sep.join(parts)
RECURSIVE Join(_, _)
Join(parts, sep) ==
    IF parts = <<>> THEN <<>>
    ELSE IF Len(parts) = 1 THEN parts[1]
    ELSE parts[1] \o <<sep>> \o Join(Tail(parts), sep)

-----------------------------------------------------------------------------
(* homeassistant.util.slugify (python-slugify with separator "_") and the  *)
(* module's _slugify_upper.                                                *)

\* re.sub('[^-a-zA-Z0-9]+', '-', text) followed by re.sub('-{2,}', '-', ...):
\* every run of disallowed characters and dashes becomes one dash.
IsSlugChar(c) == IsLower(c) \/ IsUpper(c) \/ IsDigit(c)

RECURSIVE DashRuns(_, _)
DashRuns(s, inRun) ==
    IF s = <<>> THEN <<>>
    ELSE IF IsSlugChar(Head(s)) THEN <<Head(s)>> \o DashRuns(Tail(s), FALSE)
    ELSE IF inRun THEN DashRuns(Tail(s), TRUE)
    ELSE <<"-">> \o DashRuns(Tail(s), TRUE)

S_unknown == <<"u", "n", "k", "n", "o", "w", "n">>

\* text.replace('-', separator) with separator "_"
DashToSeparator(s) == [i \in DOMAIN s |-> IF s[i] = "-" THEN "_" ELSE s[i]]

\* "unknown" if slug == "" else slug
OrUnknown(slug) == IF slug = <<>> THEN S_unknown ELSE slug

\* re.sub('(?<=\d),(?=\d)', '', text): a comma between two digits is deleted.
\* prev is the character before s in the text.
RECURSIVE CleanupNumbers(_, _)
CleanupNumbers(s, prev) ==
    IF s = <<>> THEN <<>>
    ELSE IF Head(s) = "," /\ IsDigit(prev) /\ Len(s) > 1 /\ IsDigit(s[2])
         THEN CleanupNumbers(Tail(s), ",")
         ELSE <<Head(s)>> \o CleanupNumbers(Tail(s), Head(s))

\* The texts of the model are ASCII without quotes and character references,
\* on which the remaining steps of python-slugify act.
slugify(text) ==
    IF text = <<>> THEN <<>>
    ELSE OrUnknown(DashToSeparator(Strip(DashRuns(CleanupNumbers(StrLower(text), " "), FALSE), "-")))

slugify_upper(string) == StrUpper(slugify(string))

-----------------------------------------------------------------------------
(* _parse_topic                                                            *)

NoneValue == [t |-> "none"]

\* _parse_topic taking the last segment for the command
TopicInfo_LastSegment(parts) ==
    IF Len(parts) < 3 THEN [t |-> "none"]
    ELSE [t |-> "dict", device_id |-> slugify_upper(parts[2]), command |-> parts[Len(parts)]]

\* The dict {ATTR_DEVICE_ID: device_id, ATTR_COMMAND: command}, or None
\* for a topic of fewer than 3 segments.
TopicInfo(parts) ==
    IF Len(parts) < 3 THEN NoneValue
    ELSE [t |-> "dict", device_id |-> slugify_upper(parts[2]), command |-> parts[3]]

parse_topic(topic) == TopicInfo(Split(topic, "/"))

-----------------------------------------------------------------------------
(* Python and JSON values.                                                 *)

PyStr(s) == [t |-> "str", v |-> s]

PyInt(n) == [t |-> "int", v |-> n]

PyBool(b) == [t |-> "bool", v |-> b]

RECURSIVE Gcd(_, _)
Gcd(a, b) == IF b = 0 THEN a ELSE Gcd(b, a % b)

Abs(n) == IF n < 0 THEN -n ELSE n

\* The float n/d, in lowest terms with d > 0.
Reduced(n, d, g) == [t |-> "float", n |-> n \div g, d |-> d \div g]

PyFloat(n, d) == IF d < 0 THEN Reduced(-n, -d, Gcd(Abs(n), Abs(d))) ELSE Reduced(n, d, Gcd(Abs(n), Abs(d)))

JNull == [t |-> "null"]

JBool(b) == [t |-> "bool", v |-> b]

JInt(n) == [t |-> "int", v |-> n]

JFloat(n, d) == PyFloat(n, d)

JStr(s) == [t |-> "str", v |-> s]

JArray == [t |-> "array"]

JObject(fields) == [t |-> "object", fields |-> fields]

Invalid == [t |-> "invalid"]

-----------------------------------------------------------------------------
(* Python conversions used by the validators: str(), int(), float().       *)

RECURSIVE NatStr(_)
NatStr(n) == IF n < 10 THEN <<Digits[n + 1]>> ELSE NatStr(n \div 10) \o <<Digits[(n % 10) + 1]>>

\* str(int)
IntStr(n) == IF n < 0 THEN <<"-">> \o NatStr(-n) ELSE NatStr(n)

\* The decimal digits of r/d after the point (terminating expansions).
RECURSIVE FracStr(_, _, _)
FracStr(r, d, fuel) ==
    IF r = 0 \/ fuel = 0 THEN <<>>
    ELSE <<Digits[((r * 10) \div d) + 1]>> \o FracStr((r * 10) % d, d, fuel - 1)

\* str(float) for a float with a short decimal expansion: "50.0", "12.5"
OrZero(frac) == IF frac = <<>> THEN <<"0">> ELSE frac

FloatStr(n, d) ==
    (IF n < 0 THEN <<"-">> ELSE <<>>) \o NatStr(Abs(n) \div d) \o <<".">>
    \o OrZero(FracStr(Abs(n) % d, d, 17))

S_True == <<"T", "r", "u", "e">>

S_False == <<"F", "a", "l", "s", "e">>

\* The value of a string of decimal digits, -1 when it is not one.
\* int() and float() accept a single underscore between two digits.
RECURSIVE DigitsValue(_, _, _)
DigitsValue(s, acc, prevDigit) ==
    IF s = <<>> THEN (IF prevDigit THEN acc ELSE -1)
    ELSE IF IsDigit(Head(s)) THEN DigitsValue(Tail(s), acc * 10 + (IndexOf(Digits, Head(s)) - 1), TRUE)
    ELSE IF Head(s) = "_" /\ prevDigit THEN DigitsValue(Tail(s), acc, FALSE)
    ELSE -1

NatValue(s) == DigitsValue(s, 0, FALSE)

RECURSIVE Pow10(_)
Pow10(k) == IF k = 0 THEN 1 ELSE 10 * Pow10(k - 1)

CountDigits(s) == Cardinality({i \in DOMAIN s : IsDigit(s[i])})

IsSigned(body) == body # <<>> /\ Head(body) \in {"+", "-"}

IsNegative(body) == body # <<>> /\ Head(body) = "-"

Unsigned(body) == IF IsSigned(body) THEN Tail(body) ELSE body

SignedInt(neg, mag) == IF mag < 0 THEN Invalid ELSE PyInt(IF neg THEN -mag ELSE mag)

\* int(str): surrounding whitespace, an optional sign, decimal digits.
IntOfBody(body) == SignedInt(IsNegative(body), NatValue(Unsigned(body)))

IntOfStr(s) == IntOfBody(Strip(s, " "))

\* The value of the digits of a part of a decimal, 0 for an empty part.
PartValue(part) == IF part = <<>> THEN 0 ELSE NatValue(part)

Decimal(neg, ip, fp, fd) ==
    IF ip < 0 \/ fp < 0 THEN Invalid
    ELSE PyFloat(IF neg THEN -(ip * Pow10(fd) + fp) ELSE ip * Pow10(fd) + fp, Pow10(fd))

FloatOfParts(neg, parts) ==
    IF Len(parts) > 2 THEN Invalid
    ELSE IF Len(parts) = 1 THEN (IF parts[1] = <<>> THEN Invalid ELSE Decimal(neg, NatValue(parts[1]), 0, 0))
    ELSE IF parts[1] = <<>> /\ parts[2] = <<>> THEN Invalid
    ELSE Decimal(neg, PartValue(parts[1]), PartValue(parts[2]), CountDigits(parts[2]))

\* float(str): surrounding whitespace, an optional sign, digits with an
\* optional decimal point ("12", "12.5", ".5", "5.").  Exponents and the
\* literals inf/nan are outside the modelled payloads.
FloatOfBody(body) == FloatOfParts(IsNegative(body), Split(Unsigned(body), "."))

FloatOfStr(s) == FloatOfBody(Strip(s, " "))

\* int(value): TypeError for None and containers, truncation for floats.
IntOf(j) ==
    CASE j.t = "int" -> PyInt(j.v)
      [] j.t = "bool" -> PyInt(IF j.v THEN 1 ELSE 0)
      [] j.t = "float" -> PyInt(IF j.n < 0 THEN -((-j.n) \div j.d) ELSE j.n \div j.d)
      [] j.t = "str" -> IntOfStr(j.v)
      [] OTHER -> Invalid

\* float(value)
FloatOf(j) ==
    CASE j.t = "int" -> PyFloat(j.v, 1)
      [] j.t = "bool" -> PyFloat(IF j.v THEN 1 ELSE 0, 1)
      [] j.t = "float" -> PyFloat(j.n, j.d)
      [] j.t = "str" -> FloatOfStr(j.v)
      [] OTHER -> Invalid

\* str(value) for the scalars cv.string lets through
StrOf(j) ==
    CASE j.t = "str" -> j.v
      [] j.t = "int" -> IntStr(j.v)
      [] j.t = "bool" -> IF j.v THEN S_True ELSE S_False
      [] j.t = "float" -> FloatStr(j.n, j.d)

-----------------------------------------------------------------------------
(* The validators of homeassistant.helpers.config_validation that          *)
(* STATUS_PAYLOAD names.  Each maps a JSON value to a Python value or to   *)
(* Invalid (vol.Invalid raised).                                           *)

\* cv.string: None and containers are rejected, other scalars are str()-ed
cv_string(j) ==
    IF j.t \in {"null", "array", "object"} THEN Invalid ELSE PyStr(StrOf(j))

\* vol.Range(min=0): v < 0 is rejected
RangeMin0(v) ==
    CASE v.t = "invalid" -> Invalid
      [] v.t = "int" -> IF v.v < 0 THEN Invalid ELSE v
      [] v.t = "float" -> IF v.n < 0 THEN Invalid ELSE v

\* cv.positive_int = vol.All(vol.Coerce(int), vol.Range(min=0))
cv_positive_int(j) == RangeMin0(IntOf(j))

\* cv.positive_float = vol.All(vol.Coerce(float), vol.Range(min=0))
cv_positive_float(j) == RangeMin0(FloatOf(j))

TruthyStrings == {<<"1">>, <<"t", "r", "u", "e">>, <<"y", "e", "s">>, <<"o", "n">>, <<"e", "n", "a", "b", "l", "e">>}

FalsyStrings == {<<"0">>, <<"f", "a", "l", "s", "e">>, <<"n", "o">>, <<"o", "f", "f">>, <<"d", "i", "s", "a", "b", "l", "e">>}

\* cv.boolean
BooleanOfStr(value) ==
    IF value \in TruthyStrings THEN PyBool(TRUE)
    ELSE IF value \in FalsyStrings THEN PyBool(FALSE)
    ELSE Invalid

cv_boolean(j) ==
    CASE j.t = "bool" -> PyBool(j.v)
      [] j.t = "str" -> BooleanOfStr(Strip(StrLower(j.v), " "))
      [] j.t = "int" -> PyBool(j.v # 0)
      [] j.t = "float" -> PyBool(j.n # 0)
      [] OTHER -> Invalid

-----------------------------------------------------------------------------
(* MQTT strings for topics/properties.                                     *)

TOPIC_BASE == <<"n", "o", "i", "s", "e", "m", "u", "s", "i", "c", "s", "y", "s", "t", "e", "m">>

ONLINE_STATUS == <<"o", "n", "l", "i", "n", "e">>

ATTR_ARTIST == "artist"

ATTR_ALBUM == "album"

ATTR_TRACKNAME == "trackname"

ATTR_TRACK_NUMBER == "tracknumber"

ATTR_DURATION == "duration"

ATTR_POSITION == "position"

ATTR_POSITION_AT == "positionat"

ATTR_VOLUME == "volume"

ATTR_VOLUME_MUTED == "muted"

ATTR_PLAY_STATE == "playstate"

PLAY_STATE_PLAYING == <<"p", "l", "a", "y", "i", "n", "g">>

COMMAND_TOPIC == <<"c", "o", "m", "m", "a", "n", "d">>

COMMAND_NEXT_TRACK == <<"n", "e", "x", "t">>

COMMAND_MUTE == <<"m", "u", "t", "e">>

COMMAND_PAUSE == <<"p", "a", "u", "s", "e">>

COMMAND_PLAY == <<"p", "l", "a", "y">>

COMMAND_REPEAT == <<"r", "e", "p", "e", "a", "t">>

COMMAND_SEEK == <<"s", "e", "e", "k">>

COMMAND_STOP == <<"s", "t", "o", "p">>

COMMAND_PREVIOUS_TRACK == <<"p", "r", "e", "v", "i", "o", "u", "s">>

COMMAND_VOLUME == <<"v", "o", "l", "u", "m", "e">>

CMD_AVAILABILITY == <<"a", "v", "a", "i", "l", "a", "b", "i", "l", "i", "t", "y">>

CMD_STATUS == <<"s", "t", "a", "t", "u", "s">>

-----------------------------------------------------------------------------
(* STATUS_PAYLOAD: json_loads, then the dict schema with ALLOW_EXTRA.      *)

\* The validator of each declared key.
FieldValidator(key, j) ==
    CASE key \in {ATTR_ARTIST, ATTR_ALBUM, ATTR_TRACKNAME, ATTR_POSITION_AT, ATTR_PLAY_STATE} -> cv_string(j)
      [] key \in {ATTR_TRACK_NUMBER, ATTR_DURATION, ATTR_POSITION} -> cv_positive_int(j)
      [] key = ATTR_VOLUME -> cv_positive_float(j)
      [] key = ATTR_VOLUME_MUTED -> cv_boolean(j)
      [] OTHER -> j

\* json_loads: a payload is either text that is not JSON (a ValueError,
\* which voluptuous turns into Invalid) or the JSON document it spells.
json_loads(payload) ==
    IF payload.kind = "json" THEN payload.doc ELSE Invalid

\* The validated dict (a function from the present keys to Python
\* values; undeclared keys are kept as they are), or Invalid when the
\* payload is not JSON, not an object, or any declared key fails
\* (vol.MultipleInvalid).
AllValid(out) ==
    IF \E k \in DOMAIN out : out[k] = Invalid THEN Invalid ELSE [t |-> "dict", items |-> out]

ValidateDocument(doc) ==
    IF doc.t # "object" THEN Invalid
    ELSE AllValid([k \in DOMAIN doc.fields |-> FieldValidator(k, doc.fields[k])])

STATUS_PAYLOAD(payload) == ValidateDocument(json_loads(payload))

\* dict.get(key): None for a missing key
Get(data, key) == IF key \in DOMAIN data.items THEN data.items[key] ELSE NoneValue

-----------------------------------------------------------------------------
(* datetime.strptime(s, '%a, %d %b %Y %H:%M:%S GMT'): the format's blanks  *)
(* match runs of whitespace, names match without regard to case, and the   *)
(* whole string must be consumed.  ValueError otherwise.                   *)

DayNames == {<<"m", "o", "n">>, <<"t", "u", "e">>, <<"w", "e", "d">>, <<"t", "h", "u">>, <<"f", "r", "i">>, <<"s", "a", "t">>, <<"s", "u", "n">>}

MonthNames == << <<"j", "a", "n">>, <<"f", "e", "b">>, <<"m", "a", "r">>, <<"a", "p", "r">>, <<"m", "a", "y">>, <<"j", "u", "n">>, <<"j", "u", "l">>, <<"a", "u", "g">>, <<"s", "e", "p">>, <<"o", "c", "t">>, <<"n", "o", "v">>, <<"d", "e", "c">> >>

S_gmt == <<"g", "m", "t">>

ValueError == [t |-> "ValueError"]

AllDigits(s) == \A i \in DOMAIN s : IsDigit(s[i])

\* A field of one or two digits (%d, %H, %M, %S)
IsShortNumber(s) == Len(s) \in {1, 2} /\ AllDigits(s)

IsLeap(y) == (y % 4 = 0 /\ y % 100 # 0) \/ y % 400 = 0

DaysIn(month, year) ==
    IF month = 2 THEN (IF IsLeap(year) THEN 29 ELSE 28)
    ELSE IF month \in {4, 6, 9, 11} THEN 30 ELSE 31

NonEmpty(x) == x # <<>>

MonthSet == Range(MonthNames)

MakeDatetime(Y, b, d, hms) ==
    IF d <= DaysIn(b, Y)
    THEN [t |-> "datetime", year |-> Y, month |-> b, day |-> d,
          hour |-> hms[1], minute |-> hms[2], second |-> hms[3]]
    ELSE ValueError

MatchTime(Y, b, d, hms) ==
    IF /\ Len(hms) = 3
       /\ \A i \in 1..3 : IsShortNumber(hms[i])
       /\ NatValue(hms[1]) <= 23
       /\ NatValue(hms[2]) <= 59
       /\ NatValue(hms[3]) <= 59
    THEN MakeDatetime(Y, b, d, [i \in 1..3 |-> NatValue(hms[i])])
    ELSE ValueError

MatchTokens(tokens) ==
    IF /\ Len(tokens) = 6
       /\ Len(tokens[1]) = 4
       /\ tokens[1][4] = ","
       /\ StrLower(SubSeq(tokens[1], 1, 3)) \in DayNames
       /\ IsShortNumber(tokens[2])
       /\ NatValue(tokens[2]) \in 1..31
       /\ StrLower(tokens[3]) \in MonthSet
       /\ Len(tokens[4]) = 4
       /\ AllDigits(tokens[4])
       /\ NatValue(tokens[4]) >= 1
       /\ StrLower(tokens[6]) = S_gmt
    THEN MatchTime(NatValue(tokens[4]), IndexOf(MonthNames, StrLower(tokens[3])), NatValue(tokens[2]),
                   Split(tokens[5], ":"))
    ELSE ValueError

strptime(s) ==
    IF s = <<>> \/ Head(s) = " " \/ s[Len(s)] = " " THEN ValueError
    ELSE MatchTokens(SelectSeq(Split(s, " "), NonEmpty))

-----------------------------------------------------------------------------
(* The inputs: configurations, topics and payloads.                        *)

S_SaltMine == <<"S", "a", "l", "t", "M", "i", "n", "e">>

S_Salt_Mine == <<"S", "a", "l", "t", " ", "M", "i", "n", "e">>

S_salt_mine == <<"s", "a", "l", "t", "-", "m", "i", "n", "e">>

S_SALT_MINE == <<"S", "A", "L", "T", "_", "M", "I", "N", "E">>

S_Zone_1c2 == <<"Z", "o", "n", "e", " ", "1", ",", "2">>

S_Zone_1d2 == <<"Z", "o", "n", "e", " ", "1", "-", "2">>

S_OtherDevice == <<"O", "t", "h", "e", "r", "D", "e", "v", "i", "c", "e">>

S_Muse == <<"M", "u", "s", "e">>

S_Absolution == <<"A", "b", "s", "o", "l", "u", "t", "i", "o", "n">>

S_Hysteria == <<"H", "y", "s", "t", "e", "r", "i", "a">>

S_paused == <<"p", "a", "u", "s", "e", "d">>

S_offline == <<"o", "f", "f", "l", "i", "n", "e">>

S_garbage == <<"{", "g", "a", "r", "b", "a", "g", "e">>

S_loud == <<"l", "o", "u", "d">>

S_at1 == <<"M", "o", "n", ",", " ", "0", "2", " ", "J", "a", "n", " ", "2", "0", "0", "6", " ", "1", "5", ":", "0", "4", ":", "0", "5", " ", "G", "M", "T">>

S_at2 == <<"T", "u", "e", ",", " ", "0", "3", " ", "J", "a", "n", " ", "2", "0", "0", "6", " ", "0", "8", ":", "3", "0", ":", "0", "0", " ", "G", "M", "T">>

S_iso == <<"2", "0", "0", "6", "-", "0", "1", "-", "0", "2", "T", "1", "5", ":", "0", "4", ":", "0", "5", "Z">>

\* The platform configurations (CONF_NAME, CONF_DEVICE_ID).
Configs ==
    { [name |-> S_SaltMine, device_id |-> S_SaltMine],
      [name |-> S_SaltMine, device_id |-> S_Salt_Mine],
      [name |-> S_SaltMine, device_id |-> S_Zone_1c2] }

Text(s) == [kind |-> "text", text |-> s]

Json(doc) == [kind |-> "json", doc |-> doc]

\* A status object as the device sends it in full.
FullStatus ==
    [ artist |-> JStr(S_Muse), album |-> JStr(S_Absolution), trackname |-> JStr(S_Hysteria),
      tracknumber |-> JInt(3), duration |-> JInt(227), position |-> JInt(10),
      positionat |-> JStr(S_at1), volume |-> JInt(50), muted |-> JBool(FALSE),
      playstate |-> JStr(PLAY_STATE_PLAYING) ]

\* {"artist":"Muse","tracknumber":3,"volume":50,"playstate":"playing"}
SparseStatus ==
    [ artist |-> JStr(S_Muse), tracknumber |-> JInt(3), volume |-> JInt(50),
      playstate |-> JStr(PLAY_STATE_PLAYING) ]

\* Other values of single fields: valid ones, coerced ones and invalid ones.
FieldValues ==
    { <<ATTR_ARTIST, JInt(5)>>, <<ATTR_ARTIST, JNull>>,
      <<ATTR_ALBUM, JArray>>,
      <<ATTR_TRACK_NUMBER, JStr(<<"4">>)>>, <<ATTR_TRACK_NUMBER, JInt(-1)>>,
      <<ATTR_DURATION, JInt(180)>>, <<ATTR_DURATION, JStr(S_loud)>>,
      <<ATTR_POSITION, JFloat(7, 2)>>,
      <<ATTR_POSITION_AT, JStr(S_at2)>>, <<ATTR_POSITION_AT, JStr(<<>>)>>,
      <<ATTR_POSITION_AT, JStr(S_iso)>>, <<ATTR_POSITION_AT, JNull>>,
      <<ATTR_VOLUME, JInt(75)>>, <<ATTR_VOLUME, JFloat(25, 2)>>, <<ATTR_VOLUME, JInt(150)>>,
      <<ATTR_VOLUME, JInt(-1)>>, <<ATTR_VOLUME, JStr(S_loud)>>,
      <<ATTR_VOLUME_MUTED, JStr(<<"O", "n">>)>>, <<ATTR_VOLUME_MUTED, JStr(S_loud)>>,
      <<ATTR_PLAY_STATE, JStr(S_paused)>>, <<ATTR_PLAY_STATE, JStr(<<"P", "l", "a", "y", "i", "n", "g">>)>>,
      <<"genre", JStr(S_loud)>> }

With(obj, key, value) == [k \in DOMAIN obj \cup {key} |-> IF k = key THEN value ELSE obj[k]]

Without(obj, key) == [k \in DOMAIN obj \ {key} |-> obj[k]]

BaseObjects == {FullStatus, SparseStatus, With(SparseStatus, ATTR_POSITION_AT, JStr(<<>>))}

StatusObjects ==
    BaseObjects
    \cup {With(FullStatus, fv[1], fv[2]) : fv \in FieldValues}
    \cup {Without(FullStatus, k) : k \in DOMAIN FullStatus}
    \cup {With(With(SparseStatus, ATTR_POSITION_AT, JStr(<<>>)), ATTR_DURATION, JInt(180))}
    \cup {With(SparseStatus, ATTR_POSITION_AT, JStr(S_iso))}

TextPayloads == {Text(ONLINE_STATUS), Text(S_offline), Text(<<>>), Text(S_garbage)}

StatusPayloads == {Json(JObject(o)) : o \in StatusObjects} \cup {Json(JArray), Json(JInt(5))}

\* The body of the entity's own play command, which the wildcard
\* subscription delivers back.
OwnCommandPayload == Json(JObject([command |-> JStr(COMMAND_PLAY), parameter |-> JStr(<<>>)]))

ProbePayloads == TextPayloads \cup {Json(JObject(FullStatus)), OwnCommandPayload}

DeviceSegments == {S_SaltMine, S_Salt_Mine, S_salt_mine, S_SALT_MINE, S_Zone_1c2, S_Zone_1d2, S_OtherDevice}

CommandSegments == {CMD_STATUS, CMD_AVAILABILITY, COMMAND_TOPIC}

Topics ==
    {TOPIC_BASE}
    \cup {Join(<<TOPIC_BASE, S_SaltMine>>, "/")}
    \cup {Join(<<TOPIC_BASE, d, c>>, "/") : d \in DeviceSegments, c \in CommandSegments}
    \cup {Join(<<TOPIC_BASE, d, CMD_STATUS, <<"x">> >>, "/") : d \in {S_SaltMine, S_OtherDevice}}
    \cup {Join(<<TOPIC_BASE, <<>>, CMD_STATUS>>, "/"), Join(<<TOPIC_BASE, S_SaltMine, <<>> >>, "/")}

StatusTopics == {Join(<<TOPIC_BASE, d, CMD_STATUS>>, "/") : d \in {S_SaltMine, S_salt_mine}}

\* The messages the subscription to 'noisemusicsystem/#' can deliver.
Messages ==
    {[topic |-> tp, payload |-> p] : tp \in Topics, p \in ProbePayloads}
    \cup {[topic |-> tp, payload |-> p] : tp \in StatusTopics, p \in StatusPayloads}

\* The arguments of the command entry points.
SeekPositions == {PyFloat(0, 1), PyFloat(61, 2)}

RepeatModes == {<<"o", "f", "f">>, <<"a", "l", "l">>}

VolumeLevels == {PyFloat(3, 4), PyFloat(1, 2)}

-----------------------------------------------------------------------------
(* The pure functions tabulated over the inputs of the model, so that      *)
(* each is computed once per input rather than once per step.              *)

\* _parse_topic(topic) for every topic of the model
ParsedTopic == [tp \in Topics |-> parse_topic(tp)]

\* STATUS_PAYLOAD(payload) for every payload of the model
ValidatedPayload == [p \in StatusPayloads \cup ProbePayloads |-> STATUS_PAYLOAD(p)]

\* The position timestamps that pass validation: the arguments of strptime
HasPositionAt(data) == data # Invalid /\ ATTR_POSITION_AT \in DOMAIN data.items

PositionAtStrings ==
    {data.items[ATTR_POSITION_AT].v :
        data \in {d \in {STATUS_PAYLOAD(p) : p \in StatusPayloads \cup ProbePayloads} : HasPositionAt(d)}}

\* datetime.strptime(s, '%a, %d %b %Y %H:%M:%S GMT') for each of them
ParsedTime == [s \in PositionAtStrings |-> strptime(s)]

-----------------------------------------------------------------------------
(* The entity: NoiseMusicSystem.__init__ and the handlers that             *)
(* async_added_to_hass subscribes.                                         *)

PAUSED == "paused"

PLAYING == "playing"

\* The attributes after construction.  The _attr_media_* attributes and
\* _attr_is_volume_muted that __init__ does not assign hold the None
\* default of MediaPlayerEntity.
NewEntity(device) ==
    [ name |-> device.name,
      device_name |-> device.device_id,
      device_id |-> slugify_upper(device.device_id),
      attr_unique_id |-> device.device_id,
      attr_media_album_artist |-> PyStr(<<>>),
      track_artist |-> PyStr(<<>>),
      track_album_name |-> PyStr(<<>>),
      track_name |-> PyStr(<<>>),
      album_art |-> NoneValue,
      volume |-> PyFloat(0, 1),
      attr_state |-> PAUSED,
      attr_available |-> FALSE,
      attr_media_track |-> NoneValue,
      attr_media_duration |-> NoneValue,
      attr_media_position |-> NoneValue,
      attr_is_volume_muted |-> NoneValue,
      attr_media_position_updated_at |-> NoneValue ]

\* The outcome of a handler: the entity afterwards, the number of
\* schedule_update_ha_state calls it made, and the exception that escaped
\* it ("none" when it returned).
Outcome(s, n, exc) == [self |-> s, scheduled |-> n, raised |-> exc]

\* update_availability taking every payload but "offline" for online
update_availability_NotOffline(s, payload) ==
    Outcome([s EXCEPT !.attr_available = (payload # [kind |-> "text", text |-> S_offline])], 1, "none")

\* update_availability taking every message for a change of availability
update_availability_Toggle(s, payload) ==
    Outcome([s EXCEPT !.attr_available = ~s.attr_available], 1, "none")

update_availability(s, payload) ==
    Outcome([s EXCEPT !.attr_available = (payload = [kind |-> "text", text |-> ONLINE_STATUS])], 1, "none")

\* x / 100.0
Div100(x) == PyFloat(x.n, x.d * 100)

\* update_status, statement by statement: an exception leaves the
\* assignments made before it in place and skips the rest.

\* lines 175-182
AssignTrack(s, data) ==
    [s EXCEPT !.attr_available = TRUE,
              !.track_artist = Get(data, ATTR_ARTIST),
              !.attr_media_album_artist = Get(data, ATTR_ARTIST),
              !.track_album_name = Get(data, ATTR_ALBUM),
              !.track_name = Get(data, ATTR_TRACKNAME),
              !.attr_media_track = Get(data, ATTR_TRACK_NUMBER),
              !.attr_media_duration = Get(data, ATTR_DURATION),
              !.attr_media_position = Get(data, ATTR_POSITION)]

\* update_status keeping the play state when the payload has none
AssignVolume_KeepsPhase(s, data) ==
    [s EXCEPT !.volume = Div100(Get(data, ATTR_VOLUME)),
              !.attr_is_volume_muted = Get(data, ATTR_VOLUME_MUTED),
              !.attr_state = IF Get(data, ATTR_PLAY_STATE) = [t |-> "none"] THEN s.attr_state
                             ELSE IF Get(data, ATTR_PLAY_STATE) = PyStr(PLAY_STATE_PLAYING)
                             THEN PLAYING ELSE PAUSED]

\* update_status storing the wire volume as it is
AssignVolume_Unscaled(s, data) ==
    [s EXCEPT !.volume = Get(data, ATTR_VOLUME),
              !.attr_is_volume_muted = Get(data, ATTR_VOLUME_MUTED),
              !.attr_state = IF Get(data, ATTR_PLAY_STATE) = PyStr(PLAY_STATE_PLAYING)
                             THEN PLAYING ELSE PAUSED]

\* lines 183-185; the volume is present
AssignVolume(s, data) ==
    [s EXCEPT !.volume = Div100(Get(data, ATTR_VOLUME)),
              !.attr_is_volume_muted = Get(data, ATTR_VOLUME_MUTED),
              !.attr_state = IF Get(data, ATTR_PLAY_STATE) = PyStr(PLAY_STATE_PLAYING)
                             THEN PLAYING ELSE PAUSED]

\* line 187, then line 189
AssignPositionAt(s, parsed) ==
    IF parsed = ValueError THEN Outcome(s, 0, "ValueError")
    ELSE Outcome([s EXCEPT !.attr_media_position_updated_at = parsed], 1, "none")

\* lines 186-189
FinishStatus(s, at) ==
    IF at = NoneValue THEN Outcome(s, 0, "TypeError")   \* len(None)
    ELSE IF Len(at.v) = 0 THEN Outcome(s, 1, "none")
    ELSE AssignPositionAt(s, ParsedTime[at.v])

\* lines 175-189
MergeStatus(s, data) ==
    IF Get(data, ATTR_VOLUME) = NoneValue
    THEN Outcome(AssignTrack(s, data), 0, "TypeError")   \* None / 100.0
    ELSE FinishStatus(AssignVolume(AssignTrack(s, data), data), Get(data, ATTR_POSITION_AT))

\* update_status marking the device available before it validates
Validated_AvailableFirst(s, data) ==
    IF data = Invalid THEN Outcome([s EXCEPT !.attr_available = TRUE], 0, "none") ELSE MergeStatus(s, data)

\* lines 169-173
Validated(s, data) == IF data = Invalid THEN Outcome(s, 0, "none") ELSE MergeStatus(s, data)

update_status(s, payload) == Validated(s, ValidatedPayload[payload])

\* message_received without the comparison of device ids
Dispatch_AnyDevice(s, m, topic_info) ==
    IF topic_info = NoneValue THEN Outcome(s, 0, "AttributeError")
    ELSE CASE topic_info.command = CMD_AVAILABILITY -> update_availability(s, m.payload)
           [] topic_info.command = CMD_STATUS -> update_status(s, m.payload)
           [] OTHER -> Outcome(s, 0, "none")

\* message_received handing every other command segment to update_status
Dispatch_DefaultStatus(s, m, topic_info) ==
    IF topic_info = NoneValue THEN Outcome(s, 0, "AttributeError")
    ELSE IF topic_info.device_id = s.device_id
         THEN CASE topic_info.command = CMD_AVAILABILITY -> update_availability(s, m.payload)
                [] OTHER -> update_status(s, m.payload)
         ELSE Outcome(s, 0, "none")

\* The dispatch of message_received.  None.get raises AttributeError
\* for a topic that _parse_topic rejects; the except clause catches
\* vol.MultipleInvalid only, which no statement of the try block lets out.
Dispatch(s, m, topic_info) ==
    IF topic_info = NoneValue THEN Outcome(s, 0, "AttributeError")
    ELSE IF topic_info.device_id = s.device_id
         THEN CASE topic_info.command = CMD_AVAILABILITY -> update_availability(s, m.payload)
                [] topic_info.command = CMD_STATUS -> update_status(s, m.payload)
                [] OTHER -> Outcome(s, 0, "none")
         ELSE Outcome(s, 0, "none")

message_received(s, m) == Dispatch(s, m, ParsedTopic[m.topic])

-----------------------------------------------------------------------------
(* The command encoder: command_payload and publish_command.               *)

\* json.dumps of a Python scalar
ToJson(v) ==
    CASE v.t = "none" -> JNull
      [] v.t = "str" -> JStr(v.v)
      [] v.t = "int" -> JInt(v.v)
      [] v.t = "float" -> JFloat(v.n, v.d)
      [] v.t = "bool" -> JBool(v.v)

\* vars(command_payload(command, parameter))
command_payload(command, parameter) == [command |-> PyStr(command), parameter |-> parameter]

\* json.dumps(vars(payload)): the text of the object with the same keys
json_dumps(obj) == Json(JObject([k \in DOMAIN obj |-> ToJson(obj[k])]))

\* publish_command addressing the device by its normalized id
publish_command_DeviceId(s, command, parameter) ==
    [ topic |-> TOPIC_BASE \o <<"/">> \o s.device_id \o <<"/">> \o COMMAND_TOPIC,
      payload |-> json_dumps(command_payload(command, parameter)) ]

\* The message publish_command hands to mqtt.async_publish.
publish_command(s, command, parameter) ==
    [ topic |-> TOPIC_BASE \o <<"/">> \o s.device_name \o <<"/">> \o COMMAND_TOPIC,
      payload |-> json_dumps(command_payload(command, parameter)) ]

\* The default of publish_command's parameter
NoParameter == PyStr(<<>>)

-----------------------------------------------------------------------------
(* The state machine.                                                      *)

Init ==
    /\ self \in {NewEntity(device) : device \in Configs}
    /\ call = [op |-> "init"]
    /\ raised = "none"
    /\ scheduled = 0
    /\ published = <<>>

\* The bus client calls message_received with an inbound message.
MessageReceived ==
    \E m \in Messages :
        /\ self' = message_received(self, m).self
        /\ call' = [op |-> "message_received", msg |-> m]
        /\ raised' = message_received(self, m).raised
        /\ scheduled' = message_received(self, m).scheduled
        /\ published' = <<>>

\* An entry point that updates the entity optimistically when it publishes
Publish_Optimistic(op, arg, command, parameter) ==
    /\ call' = [op |-> op, arg |-> arg]
    /\ raised' = "none"
    /\ scheduled' = 1
    /\ published' = <<publish_command(self, command, parameter)>>
    /\ self' = [self EXCEPT !.attr_state = IF command = COMMAND_PLAY THEN PLAYING ELSE PAUSED]

\* An entry point that awaits publish_command(command, parameter).
Publish(op, arg, command, parameter) ==
    /\ call' = [op |-> op, arg |-> arg]
    /\ raised' = "none"
    /\ scheduled' = 0
    /\ published' = <<publish_command(self, command, parameter)>>
    /\ UNCHANGED self

async_media_play == Publish("async_media_play", NoneValue, COMMAND_PLAY, NoParameter)

async_media_pause == Publish("async_media_pause", NoneValue, COMMAND_PAUSE, NoParameter)

async_media_stop == Publish("async_media_stop", NoneValue, COMMAND_STOP, NoParameter)

async_media_previous_track == Publish("async_media_previous_track", NoneValue, COMMAND_PREVIOUS_TRACK, NoParameter)

async_media_next_track == Publish("async_media_next_track", NoneValue, COMMAND_NEXT_TRACK, NoParameter)

async_media_seek == \E position \in SeekPositions : Publish("async_media_seek", position, COMMAND_SEEK, position)

\* The repeat mode is not passed on.
async_set_repeat == \E repeat \in RepeatModes : Publish("async_set_repeat", PyStr(repeat), COMMAND_REPEAT, NoParameter)

async_set_volume_level == \E volume \in VolumeLevels : Publish("async_set_volume_level", volume, COMMAND_VOLUME, volume)

async_mute_volume == \E mute \in BOOLEAN : Publish("async_mute_volume", PyBool(mute), COMMAND_MUTE, PyBool(mute))

Next ==
    \/ MessageReceived
    \/ async_media_play
    \/ async_media_pause
    \/ async_media_stop
    \/ async_media_previous_track
    \/ async_media_next_track
    \/ async_media_seek
    \/ async_set_repeat
    \/ async_set_volume_level
    \/ async_mute_volume

Spec == Init /\ [][Next]_vars

-----------------------------------------------------------------------------
(* Properties.                                                             *)

Received == call.op = "message_received"

\* The number of '/'-separated segments of each topic
SegmentCount == [tp \in Topics |-> Len(Split(tp, "/"))]

\* The message m is addressed to the entity s with command segment cmd.
AddressedTo(s, m, cmd) ==
    /\ ParsedTopic[m.topic] # NoneValue
    /\ ParsedTopic[m.topic].device_id = s.device_id
    /\ ParsedTopic[m.topic].command = cmd

\* The position timestamp of a validated payload is present, non-empty
\* and not in the wire format.
BadTimestamp(data) ==
    /\ HasPositionAt(data)
    /\ data.items[ATTR_POSITION_AT].v # <<>>
    /\ ParsedTime[data.items[ATTR_POSITION_AT].v] = ValueError

\* A payload-validation failure: bad JSON, wrong field type, out-of-range
\* field, bad timestamp format.
ValidationFailure(payload) ==
    \/ ValidatedPayload[payload] = Invalid
    \/ BadTimestamp(ValidatedPayload[payload])

\* The entity s shows every field that the validated payload carries.
Reflected(s, data) ==
    /\ ATTR_ARTIST \in DOMAIN data.items =>
          /\ s.track_artist = data.items[ATTR_ARTIST]
          /\ s.attr_media_album_artist = data.items[ATTR_ARTIST]
    /\ ATTR_ALBUM \in DOMAIN data.items => s.track_album_name = data.items[ATTR_ALBUM]
    /\ ATTR_TRACKNAME \in DOMAIN data.items => s.track_name = data.items[ATTR_TRACKNAME]
    /\ ATTR_TRACK_NUMBER \in DOMAIN data.items => s.attr_media_track = data.items[ATTR_TRACK_NUMBER]
    /\ ATTR_DURATION \in DOMAIN data.items => s.attr_media_duration = data.items[ATTR_DURATION]
    /\ ATTR_POSITION \in DOMAIN data.items => s.attr_media_position = data.items[ATTR_POSITION]
    /\ ATTR_VOLUME \in DOMAIN data.items =>
          s.volume = PyFloat(data.items[ATTR_VOLUME].n, 100 * data.items[ATTR_VOLUME].d)
    /\ ATTR_VOLUME_MUTED \in DOMAIN data.items => s.attr_is_volume_muted = data.items[ATTR_VOLUME_MUTED]
    /\ ATTR_PLAY_STATE \in DOMAIN data.items =>
          (s.attr_state = PLAYING <=> data.items[ATTR_PLAY_STATE].v = PLAY_STATE_PLAYING)
    /\ (HasPositionAt(data) /\ data.items[ATTR_POSITION_AT].v # <<>>) =>
          s.attr_media_position_updated_at = ParsedTime[data.items[ATTR_POSITION_AT].v]

\* C1: a status message for this entity whose payload fails validation
\* (not JSON, a field of the wrong type or out of range, a malformed
\* position timestamp) is dropped whole: it leaves every attribute of the
\* entity as it was.
C1_FailureLeavesStateUntouched ==
    [][(/\ call'.op = "message_received"
        /\ AddressedTo(self, call'.msg, CMD_STATUS)
        /\ ValidationFailure(call'.msg.payload))
       => self' = self]_vars

\* C2: a message whose topic has fewer than 3 segments is ignored
\* silently: message_received returns without raising, the entity is
\* unchanged and no state update is scheduled.
C2_ShortTopicIgnoredSilently ==
    [][(/\ call'.op = "message_received"
        /\ SegmentCount[call'.msg.topic] < 3)
       => (raised' = "none" /\ self' = self /\ scheduled' = 0)]_vars

\* C3: no payload-validation failure escapes message_received: after a
\* status message for this entity whose payload fails validation, the
\* call has returned normally.
C3_ValidationFailureNeverEscapes ==
    (/\ Received
     /\ AddressedTo(self, call.msg, CMD_STATUS)
     /\ ValidationFailure(call.msg.payload))
    => raised = "none"

\* C4: a status message for this entity whose payload passes validation,
\* whatever subset of the optional fields it carries, is merged: the call
\* returns, the entity is available, shows the fields the payload carries,
\* and exactly one state update has been scheduled.
C4_ValidStatusIsMerged ==
    (/\ Received
     /\ AddressedTo(self, call.msg, CMD_STATUS)
     /\ ~ValidationFailure(call.msg.payload))
    => /\ raised = "none"
       /\ scheduled = 1
       /\ self.attr_available
       /\ Reflected(self, ValidatedPayload[call.msg.payload])

\* C5: sparse merge of the duration: a valid status payload without
\* duration, once merged, leaves the stored duration as it was, and one
\* with duration stores the payload's value.
C5_SparseMergeOfDuration ==
    [][(/\ call'.op = "message_received"
        /\ AddressedTo(self, call'.msg, CMD_STATUS)
        /\ ~ValidationFailure(call'.msg.payload)
        /\ raised' = "none")
       => IF ATTR_DURATION \in DOMAIN ValidatedPayload[call'.msg.payload].items
          THEN self'.attr_media_duration = ValidatedPayload[call'.msg.payload].items[ATTR_DURATION]
          ELSE self'.attr_media_duration = self.attr_media_duration]_vars

\* C6: a message whose topic parses to another device's id changes no
\* attribute of the entity and schedules no state update, whatever its
\* command segment and payload.
C6_ForeignDeviceIgnored ==
    [][(/\ call'.op = "message_received"
        /\ SegmentCount[call'.msg.topic] >= 3
        /\ ParsedTopic[call'.msg.topic].device_id # self.device_id)
       => (self' = self /\ scheduled' = 0)]_vars

\* A status message of another device, carrying a full valid payload, has
\* been handled by an entity that an earlier message made available.
C6_Witness ==
    /\ Received
    /\ SegmentCount[call.msg.topic] >= 3
    /\ ParsedTopic[call.msg.topic].device_id # self.device_id
    /\ ParsedTopic[call.msg.topic].command = CMD_STATUS
    /\ call.msg.payload = Json(JObject(FullStatus))
    /\ self.attr_available
    /\ self.attr_media_duration = NoneValue

\* C7: a status message for this entity whose payload is not JSON changes
\* no attribute of the entity and schedules no state update.
C7_BadJsonChangesNothing ==
    [][(/\ call'.op = "message_received"
        /\ AddressedTo(self, call'.msg, CMD_STATUS)
        /\ call'.msg.payload.kind = "text")
       => (self' = self /\ scheduled' = 0)]_vars

\* Text that is not JSON has arrived on the entity's status topic while
\* the entity was unavailable.
C7_Witness ==
    /\ Received
    /\ AddressedTo(self, call.msg, CMD_STATUS)
    /\ call.msg.payload = Text(S_garbage)
    /\ ~self.attr_available
    /\ scheduled = 0

\* C8: after an availability message for this entity, the entity is
\* available exactly if the payload is "online", no other attribute has
\* changed, and exactly one state update has been scheduled.
C8_AvailabilityIsPayloadOnline ==
    [][(/\ call'.op = "message_received"
        /\ AddressedTo(self, call'.msg, CMD_AVAILABILITY))
       => /\ self' = [self EXCEPT !.attr_available = (call'.msg.payload = Text(ONLINE_STATUS))]
          /\ scheduled' = 1]_vars

\* A payload that is neither "online" nor "offline" has made an entity
\* unavailable whose track a status message had set.
C8_Witness ==
    /\ Received
    /\ AddressedTo(self, call.msg, CMD_AVAILABILITY)
    /\ call.msg.payload = Text(S_garbage)
    /\ ~self.attr_available
    /\ self.track_artist = PyStr(S_Muse)
    /\ scheduled = 1

\* C9: set-volume(level) publishes the level on the wire scale, level *
\* 100, so that decoding the published parameter as a status volume
\* gives the level back.
C9_VolumeEncodingInvertsDecoding ==
    call.op = "async_set_volume_level"
    => /\ Len(published) = 1
       /\ cv_positive_float(published[1].payload.doc.fields.parameter)
             = PyFloat(100 * call.arg.n, call.arg.d)
       /\ Div100(cv_positive_float(published[1].payload.doc.fields.parameter)) = call.arg

\* The command name of each command entry point.
CommandName ==
    [ async_media_play |-> <<"p", "l", "a", "y">>,
      async_media_pause |-> <<"p", "a", "u", "s", "e">>,
      async_media_stop |-> <<"s", "t", "o", "p">>,
      async_media_next_track |-> <<"n", "e", "x", "t">>,
      async_media_previous_track |-> <<"p", "r", "e", "v", "i", "o", "u", "s">>,
      async_media_seek |-> <<"s", "e", "e", "k">>,
      async_set_repeat |-> <<"r", "e", "p", "e", "a", "t">>,
      async_set_volume_level |-> <<"v", "o", "l", "u", "m", "e">>,
      async_mute_volume |-> <<"m", "u", "t", "e">> ]

\* C10: every command invocation publishes exactly one message, on the
\* topic noisemusicsystem/{configured device name}/command, whose body is
\* an object of exactly the keys command and parameter, with the entry
\* point's command name; for play the parameter is the empty string.
C10_CommandPublishesOneMessage ==
    call.op \in DOMAIN CommandName
    => /\ Len(published) = 1
       /\ \E device \in Configs :
             /\ self.attr_unique_id = device.device_id
             /\ published[1].topic = Join(<<TOPIC_BASE, device.device_id, <<"c", "o", "m", "m", "a", "n", "d">> >>, "/")
       /\ published[1].payload.kind = "json"
       /\ published[1].payload.doc.t = "object"
       /\ DOMAIN published[1].payload.doc.fields = {"command", "parameter"}
       /\ published[1].payload.doc.fields.command = JStr(CommandName[call.op])
       /\ call.op = "async_media_play" => published[1].payload.doc.fields.parameter = JStr(<<>>)

\* play has been invoked on the entity configured as "Salt Mine".
C10_Witness ==
    /\ call.op = "async_media_play"
    /\ published =
          << [ topic |-> TOPIC_BASE \o <<"/", "S", "a", "l", "t", " ", "M", "i", "n", "e", "/">> \o COMMAND_TOPIC,
               payload |-> Json(JObject([command |-> JStr(COMMAND_PLAY), parameter |-> JStr(<<>>)])) ] >>

\* The device-name segment of each topic of two segments or more
DeviceSegment == [tp \in Topics |-> IF SegmentCount[tp] >= 2 THEN Split(tp, "/")[2] ELSE <<>>]

\* The names a and b differ only in letter case or by one separator
\* punctuation standing for another.
SameSpelling(a, b) ==
    /\ Len(a) = Len(b)
    /\ \A i \in DOMAIN a :
          IF IsSlugChar(a[i]) THEN LowerChar(a[i]) = LowerChar(b[i]) ELSE ~IsSlugChar(b[i])

\* C11: a message whose device-name segment differs from the configured
\* device name only in letter case or separator punctuation carries the
\* entity's own normalized identity, so it is routed to this entity.
C11_SpellingsShareIdentity ==
    (/\ Received
     /\ SegmentCount[call.msg.topic] >= 3
     /\ SameSpelling(DeviceSegment[call.msg.topic], self.device_name))
    => ParsedTopic[call.msg.topic].device_id = self.device_id

\* The positions of the '/' characters of a topic, and the least of a set
Slashes(tp) == {i \in DOMAIN tp : tp[i] = "/"}

Least(S) == CHOOSE x \in S : \A y \in S : x <= y

\* The text of tp strictly between position from and the next '/' after
\* it, or the end of tp.
UpToSlash(tp, from) ==
    SubSeq(tp, from + 1, Least({i \in Slashes(tp) \cup {Len(tp) + 1} : i > from}) - 1)

\* C12: the topic parser returns None for a topic with fewer than two
\* '/' (fewer than 3 segments); otherwise it returns the normalized
\* identity of the text between the first and the second '/', and the
\* text after the second '/' up to the third '/' or the end, verbatim.
C12_ParserTakesSegmentsOneAndTwo ==
    Received =>
        IF Cardinality(Slashes(call.msg.topic)) < 2
        THEN ParsedTopic[call.msg.topic] = NoneValue
        ELSE ParsedTopic[call.msg.topic] =
                [ t |-> "dict",
                  device_id |-> slugify_upper(UpToSlash(call.msg.topic, Least(Slashes(call.msg.topic)))),
                  command |-> UpToSlash(call.msg.topic,
                                        Least(Slashes(call.msg.topic)) + 1
                                          + Len(UpToSlash(call.msg.topic, Least(Slashes(call.msg.topic))))) ]

\* A message on noisemusicsystem/SaltMine/status/x has been received: four
\* segments, of which the parser took SALTMINE and status.
C12_Witness ==
    /\ Received
    /\ Cardinality(Slashes(call.msg.topic)) = 3
    /\ ParsedTopic[call.msg.topic] =
          [ t |-> "dict",
            device_id |-> <<"S", "A", "L", "T", "M", "I", "N", "E">>,
            command |-> <<"s", "t", "a", "t", "u", "s">> ]

\* C13: availability follows the most recent message that touched it: an
\* availability message for this entity sets it to (payload = "online"), a
\* successfully merged status message sets it to true, and no other
\* message changes it; a status message never sets it to false.
C13_AvailabilityFollowsLastMessage ==
    [][call'.op = "message_received" =>
         IF AddressedTo(self, call'.msg, CMD_AVAILABILITY)
         THEN self'.attr_available = (call'.msg.payload = Text(ONLINE_STATUS))
         ELSE IF /\ AddressedTo(self, call'.msg, CMD_STATUS)
                 /\ ValidatedPayload[call'.msg.payload] # Invalid
                 /\ raised' = "none"
              THEN self'.attr_available
              ELSE self'.attr_available = self.attr_available]_vars

\* C14: a message for this entity whose command segment is neither
\* "availability" nor "status" is ignored silently: the entity is
\* unchanged, no state update is scheduled and the call returns; an
\* availability message has the effect of update_availability alone and a
\* status message that of update_status alone.
C14_OtherCommandsIgnored ==
    [][(/\ call'.op = "message_received"
        /\ SegmentCount[call'.msg.topic] >= 3
        /\ ParsedTopic[call'.msg.topic].device_id = self.device_id)
       => CASE ParsedTopic[call'.msg.topic].command = CMD_AVAILABILITY ->
                 /\ self' = update_availability(self, call'.msg.payload).self
                 /\ scheduled' = 1
            [] ParsedTopic[call'.msg.topic].command = CMD_STATUS ->
                 /\ self' = update_status(self, call'.msg.payload).self
                 /\ scheduled' = update_status(self, call'.msg.payload).scheduled
            [] OTHER -> (self' = self /\ scheduled' = 0 /\ raised' = "none")]_vars

\* The entity's own play command has come back on its command topic
\* after a status message made the entity available and PLAYING.
C14_Witness ==
    /\ Received
    /\ AddressedTo(self, call.msg, COMMAND_TOPIC)
    /\ call.msg.payload = OwnCommandPayload
    /\ self.attr_available
    /\ self.attr_state = PLAYING
    /\ raised = "none"
    /\ scheduled = 0

\* C15: a valid status payload (here: one that carries a volume) whose
\* position timestamp is absent or empty is merged, that is the call
\* returns, the payload's fields are stored and one state update is
\* scheduled, and leaves the stored position-updated-at as it was; a
\* present, non-empty, well-formed timestamp replaces it.
C15_EmptyTimestampKeepsUpdatedAt ==
    [][(/\ call'.op = "message_received"
        /\ AddressedTo(self, call'.msg, CMD_STATUS)
        /\ ValidatedPayload[call'.msg.payload] # Invalid
        /\ ATTR_VOLUME \in DOMAIN ValidatedPayload[call'.msg.payload].items
        /\ ~BadTimestamp(ValidatedPayload[call'.msg.payload]))
       => /\ raised' = "none"
          /\ scheduled' = 1
          /\ Reflected(self', ValidatedPayload[call'.msg.payload])
          /\ IF \/ ~HasPositionAt(ValidatedPayload[call'.msg.payload])
                \/ ValidatedPayload[call'.msg.payload].items[ATTR_POSITION_AT].v = <<>>
             THEN self'.attr_media_position_updated_at = self.attr_media_position_updated_at
             ELSE self'.attr_media_position_updated_at
                     = ParsedTime[ValidatedPayload[call'.msg.payload].items[ATTR_POSITION_AT].v]]_vars

\* The last call was a status message for this entity whose payload was
\* merged: it passed validation and the call returned.
MergedStatus ==
    /\ Received
    /\ AddressedTo(self, call.msg, CMD_STATUS)
    /\ ValidatedPayload[call.msg.payload] # Invalid
    /\ raised = "none"

\* C16: the playback phase is PLAYING or PAUSED, PAUSED after
\* construction, and after a successful status merge it is PLAYING
\* exactly if the payload has a play state equal to "playing".
C16_PhaseIsPlayingIffPlaystatePlaying ==
    /\ self.attr_state \in {"playing", "paused"}
    /\ call.op = "init" => self.attr_state = "paused"
    /\ MergedStatus =>
          (self.attr_state = "playing"
             <=> /\ ATTR_PLAY_STATE \in DOMAIN ValidatedPayload[call.msg.payload].items
                 /\ ValidatedPayload[call.msg.payload].items[ATTR_PLAY_STATE].v
                       = <<"p", "l", "a", "y", "i", "n", "g">>)

\* A status payload without play state has been merged; the entity is
\* PAUSED.
C16_Witness ==
    /\ MergedStatus
    /\ call.msg.payload = Json(JObject(Without(FullStatus, ATTR_PLAY_STATE)))
    /\ self.attr_state = "paused"
    /\ scheduled = 1

C18_ParameterIsArgumentAsString ==
    call.op \in DOMAIN CommandName
    => /\ Len(published) = 1
       /\ published[1].payload.doc.fields.parameter
             = JStr(IF call.arg = NoneValue THEN <<>> ELSE StrOf(call.arg))

\* C19: a command invocation changes no attribute of the entity and
\* schedules no state update, and no call at all changes the entity's
\* device id.
C19_CommandsLeaveStateAlone ==
    [][/\ call'.op \in DOMAIN CommandName => (self' = self /\ scheduled' = 0)
       /\ self'.device_id = self.device_id]_vars

\* set-volume(0.5) has been invoked on an entity that a status message
\* had made available, PLAYING, with the stored volume 0.75.
C19_Witness ==
    /\ call.op = "async_set_volume_level"
    /\ call.arg = [t |-> "float", n |-> 1, d |-> 2]
    /\ Len(published) = 1
    /\ self.attr_available
    /\ self.attr_state = PLAYING
    /\ self.volume = [t |-> "float", n |-> 3, d |-> 4]
    /\ scheduled = 0

\* C20: a second delivery of the message that was handled last (an
\* availability or status message, valid or not) leaves every attribute
\* of the entity as the first delivery left it.
C20_DuplicateDeliveryIsHarmless ==
    [][(/\ call.op = "message_received"
        /\ call'.op = "message_received"
        /\ call'.msg = call.msg)
       => self' = self]_vars

\* A status message for this entity with a malformed position timestamp
\* has been handled; from here its duplicate can be delivered.
C20_Witness ==
    /\ Received
    /\ AddressedTo(self, call.msg, CMD_STATUS)
    /\ call.msg.payload = Json(JObject(With(FullStatus, ATTR_POSITION_AT, JStr(S_iso))))
    /\ raised = "ValueError"
    /\ self.track_artist = PyStr(S_Muse)

====
